---- MODULE Spec2Model ----
(***************************************************************************)
(* Client.log() of the LogVault Node.js SDK                                *)
(* (packages/client/src/client.ts): pre-flight validation, fail-safe       *)
(* serialization and the retry loop with exponential backoff and jitter.   *)
(* One log() call of one Client is followed from the call to its           *)
(* settlement; every await of the method is a separate step.  The          *)
(* constructor, verifyEventLocally and two concurrent log() calls have     *)
(* their own specifications over their own variables.                      *)
(***************************************************************************)
EXTENDS Integers, Sequences, FiniteSets, TLC

(* ------------------------------ bounds --------------------------------- *)

\* largest maxRetries a Client is constructed with
MaxRetriesBound == 2

\* longest event.action string
MaxActionLen == 3

(* ------------------------- program constants --------------------------- *)

\* body.length > 1024 * 1024
PayloadLimit == 1024 * 1024

\* Math.pow(2, attempt) * 1000
BaseUnit == 1000

\* Math.random() * 500
JitterCeiling == 500

\* error.statusCode >= 500
ServerErrorFloor == 500

\* resolution of the modelled Math.random(): r / RandomScale in [0, 1)
RandomScale == 1000

\* an undefined statusCode (falsy)
NoStatus == 0

(* ------------------------------ inputs --------------------------------- *)

\* character classes of an action string: a lowercase letter / digit /
\* underscore, an uppercase letter, the dot, any other character
Chars == {"a", "A", ".", "-"}

RECURSIVE SeqsUpTo(_, _)
SeqsUpTo(S, n) ==
  IF n = 0 THEN {<<>>}
  ELSE LET shorter == SeqsUpTo(S, n - 1)
       IN  shorter \cup {Append(s, c) : s \in {t \in shorter : Len(t) = n - 1}, c \in S}

Actions == SeqsUpTo(Chars, MaxActionLen)

\* what JSON.stringify(event) does with the event: it throws (cyclic
\* metadata), or returns a body whose body.length is `units`
Payloads ==
  { [cyclic |-> FALSE, units |-> PayloadLimit],
    [cyclic |-> FALSE, units |-> PayloadLimit + 1],
    [cyclic |-> TRUE,  units |-> 0] }

Events == { [action |-> a, cyclic |-> p.cyclic, units |-> p.units] :
            a \in Actions, p \in Payloads }

NoEvent == [action |-> <<>>, cyclic |-> FALSE, units |-> 0]

\* HTTP statuses a response carries
Statuses == {200, 401, 404, 422, 429, 503}

\* samples of Math.random(), as r / RandomScale
RandomSamples == {0, RandomScale - 1}

(* ------------------------------ state ---------------------------------- *)

VARIABLES
  maxRetries,            \* this.maxRetries
  localMode,             \* this.localMode
  localModeBannerShown,  \* this.localModeBannerShown
  event,                 \* the argument of the log() call
  pc,                    \* where the call stands
  attempt,               \* let attempt
  fetches,               \* number of fetch() calls issued by the call
  sleeps,                \* number of this.sleep() calls made by the call
  hist,                  \* how each issued attempt ended, in order
  delays,                \* the delays passed to this.sleep(), in order
  timer,                 \* the attempt's setTimeout is armed
  result,                \* how the call settled
  retryHeader,           \* response.headers of the 429 response received
  retryAfter,            \* RateLimitError.retryAfter of the error thrown
  ctorArgs,              \* the argument of a `new Client(...)` and its environment
  inst,                  \* what that construction produced
  instRequested,         \* that instance has issued a request
  vevent,                \* event argument of the latest verifyEventLocally call
  vknown,                \* its prevChainHash argument
  vres,                  \* its return value
  vorig,                 \* the call whose event was then replaced field by field
  calls,                 \* two log() calls running on one Client
  walk,                  \* a chain of events verified one after the other
  typed,                 \* a TypedClient call (logTyped, logTypedBatch, typed logger)
  oauth                  \* a run of the CLI OAuth flow and its callback server

\* the state of the chain walk, the typed client and the OAuth flow
extVars == <<walk, typed, oauth>>

\* what Client.log() does not touch
auxVars ==
  <<ctorArgs, inst, instRequested, vevent, vknown, vres, vorig, calls, extVars>>

vars == <<maxRetries, localMode, localModeBannerShown, event, pc, attempt,
          fetches, sleeps, hist, delays, timer, result, retryHeader, retryAfter,
          ctorArgs, inst, instRequested, vevent, vknown, vres, vorig, calls,
          walk, typed, oauth>>

(* --------------------------- exceptions.ts ----------------------------- *)

MkError(cls, name, statusCode, at) ==
  [cls |-> cls, name |-> name, statusCode |-> statusCode, at |-> at]

AuthenticationError(at) == MkError("AuthenticationError", "AuthenticationError", NoStatus, at)

RateLimitError(at) == MkError("RateLimitError", "RateLimitError", NoStatus, at)

ValidationError(statusCode, at) == MkError("ValidationError", "ValidationError", statusCode, at)

APIError(statusCode, at) == MkError("APIError", "APIError", statusCode, at)

\* error instanceof LogVaultError
IsLogVaultError(error) ==
  error.cls \in {"LogVaultError", "AuthenticationError", "RateLimitError",
                 "ValidationError", "APIError"}

\* what fetch() and response.json() reject with
FetchTypeError(at) == MkError("TypeError", "TypeError", NoStatus, at)

AbortError(at) == MkError("DOMException", "AbortError", NoStatus, at)

JsonSyntaxError(at) == MkError("SyntaxError", "SyntaxError", NoStatus, at)

RangeError(at) == MkError("RangeError", "RangeError", NoStatus, at)

(* ------------------------- pure helpers of log() ----------------------- *)

\* [a-z0-9_] under the regex's flags
WordChar(c, ignoreCase) == c = "a" \/ (ignoreCase /\ c = "A")

\* one step of the automaton of ^W+(\.W+)+$ : 0 start, 1 in the first
\* segment, 2 just after a dot, 3 in a later segment (accepting), 4 dead
RegexStep(q, c, ignoreCase) ==
  IF WordChar(c, ignoreCase)
  THEN (IF q = 0 THEN 1 ELSE IF q = 1 THEN 1 ELSE IF q = 2 THEN 3 ELSE IF q = 3 THEN 3 ELSE 4)
  ELSE IF c = "."
  THEN (IF q = 1 THEN 2 ELSE IF q = 3 THEN 2 ELSE 4)
  ELSE 4

RECURSIVE RegexRun(_, _, _)
RegexRun(q, s, ignoreCase) ==
  IF s = <<>> THEN q ELSE RegexRun(RegexStep(q, Head(s), ignoreCase), Tail(s), ignoreCase)

\* ACTION_REGEX.test(action), ACTION_REGEX = /^[a-z0-9_]+(\.[a-z0-9_]+)+$/i
ACTION_REGEX_test(action) == RegexRun(0, action, TRUE) = 3

\* the action pattern as published: lowercase segments only
ACTION_PATTERN_test(action) == RegexRun(0, action, FALSE) = 3

\* the catch of the serialization block: a ValidationError is rethrown,
\* anything else becomes the dummy return value
SerializationCatch_Rethrow(error) ==
  [kind |-> "rejected", value |-> "none", error |-> error]

SerializationCatch(error) ==
  IF error.cls = "ValidationError"
  THEN [kind |-> "rejected", value |-> "none", error |-> error]
  ELSE [kind |-> "resolved", value |-> "failed-serialization", error |-> MkError("none", "none", NoStatus, 0)]

\* response.ok
ResponseOk_Below500(status) == status < ServerErrorFloor

ResponseOk(status) == status >= 200 /\ status <= 299

RECURSIVE Pow2(_)
Pow2(n) == IF n = 0 THEN 1 ELSE 2 * Pow2(n - 1)

\* Math.pow(2, attempt) * 1000 + Math.random() * 500, in whole ms;
\* r / RandomScale is the value of Math.random()
Delay_FromZero(att, r) == Pow2(att - 1) * BaseUnit + (r * JitterCeiling) \div RandomScale

Delay(att, r) == Pow2(att) * BaseUnit + (r * JitterCeiling) \div RandomScale

\* error.name === "AbortError"
IsAbort(error) == error.name = "AbortError"

\* the "don't retry on specific error types" test of the catch block
IsTerminalError_NoRateLimit(error) ==
  error.cls \in {"AuthenticationError", "ValidationError"}

IsTerminalError(error) ==
  error.cls \in {"AuthenticationError", "ValidationError", "RateLimitError"}

\* error instanceof APIError && error.statusCode && error.statusCode >= 500
IsRetryableStatus_From400(error) ==
  error.cls = "APIError" /\ error.statusCode # NoStatus /\ error.statusCode >= 400

IsRetryableStatus(error) ==
  error.cls = "APIError" /\ error.statusCode # NoStatus /\ error.statusCode >= ServerErrorFloor

\* attempt < this.maxRetries && (isAbort || isRetryableStatus || !error.statusCode)
ShouldRetry_NoBudget(error, att, max) ==
  IsAbort(error) \/ IsRetryableStatus(error) \/ error.statusCode = NoStatus

ShouldRetry_OffByOne(error, att, max) ==
  att + 1 < max /\ (IsAbort(error) \/ IsRetryableStatus(error) \/ error.statusCode = NoStatus)

ShouldRetry_StatusOnly(error, att, max) ==
  att < max /\ IsRetryableStatus(error)

ShouldRetry(error, att, max) ==
  att < max /\ (IsAbort(error) \/ IsRetryableStatus(error) \/ error.statusCode = NoStatus)

\* "Final Fail": a LogVaultError is rethrown, anything else is wrapped in
\* an APIError without status, created by this attempt
FinalError_Generic(error, at) == MkError("APIError", "RetriesExhausted", NoStatus, 0)

FinalError_Raw(error, at) == error

FinalError(error, at) ==
  IF IsLogVaultError(error) THEN error ELSE APIError(NoStatus, at)

(* ----------------------- Retry-After of a 429 -------------------------- *)

\* a JavaScript number | undefined
Undefined == [kind |-> "undefined", n |-> 0]

NaN == [kind |-> "NaN", n |-> 0]

Number(n) == [kind |-> "number", n |-> n]

DecimalDigits == <<"0", "1", "2", "3", "4", "5", "6", "7", "8", "9">>

IsDigit(c) == \E i \in 1..10 : DecimalDigits[i] = c

DigitVal(c) == (CHOOSE i \in 1..10 : DecimalDigits[i] = c) - 1

RECURSIVE LeadingDigits(_, _)
LeadingDigits(s, acc) ==
  IF s = <<>> \/ ~IsDigit(Head(s)) THEN acc
  ELSE LeadingDigits(Tail(s), acc * 10 + DigitVal(Head(s)))

\* parseInt(s, 10) of a string without leading blanks or sign: the value of
\* its leading decimal digits, NaN when it has none
ParseInt(s) ==
  IF s = <<>> \/ ~IsDigit(Head(s)) THEN NaN ELSE Number(LeadingDigits(s, 0))

\* response.headers of a 429 response: no headers object, a get() that
\* throws, no Retry-After header (get returns null), or a header value:
\* empty, delay-seconds, HTTP-date
RetryAfterHeaders ==
  { [access |-> "missing", present |-> FALSE, value |-> <<>>],
    [access |-> "throws",  present |-> FALSE, value |-> <<>>],
    [access |-> "ok",      present |-> FALSE, value |-> <<>>],
    [access |-> "ok",      present |-> TRUE,  value |-> <<>>],
    [access |-> "ok",      present |-> TRUE,  value |-> <<"6", "0">>],
    [access |-> "ok",      present |-> TRUE,  value |-> <<"W", "e", "d">>] }

NoHeaders == [access |-> "none", present |-> FALSE, value |-> <<>>]

\* the try block around response.headers?.get?.("Retry-After")
RetryAfterOf(h) ==
  IF h.access # "ok" THEN Undefined
  ELSE IF ~h.present THEN Undefined
  ELSE IF h.value = <<>> THEN Undefined
  ELSE ParseInt(h.value)

(* ---------------- idle values of the other specifications -------------- *)

\* an optional value is the empty set (undefined) or a singleton
Absent == {}

Some(x) == {x}

NoCtorArgs ==
  [form |-> "none", apiKey |-> Absent, localMode |-> "undefined",
   nodeEnv |-> "production", maxRetries |-> Absent]

NoInstance ==
  [state |-> "none", apiKey |-> Absent, localMode |-> FALSE, maxRetries |-> 0,
   error |-> "none"]

NoVerifyEvent == [signature |-> "", prev_hash |-> Absent, chain_hash |-> Absent]

NoVerifyResult ==
  [called |-> FALSE, isValid |-> FALSE, hasChainHash |-> FALSE,
   chainHashValid |-> FALSE, prevHashMatches |-> FALSE, details |-> ""]

(* ------------------------------ Init ----------------------------------- *)

NoResult == [kind |-> "none", value |-> "none", error |-> MkError("none", "none", NoStatus, 0)]

Resolved(value) == [kind |-> "resolved", value |-> value, error |-> MkError("none", "none", NoStatus, 0)]

Rejected(error) == [kind |-> "rejected", value |-> "none", error |-> error]

\* a log() call of the two-call specification, not yet made
IdleCall ==
  [pc |-> "idle", event |-> NoEvent, attempt |-> 0, fetches |-> 0, sleeps |-> 0,
   hist |-> <<>>, parses |-> <<>>, delays |-> <<>>, timer |-> FALSE,
   result |-> NoResult]

\* no chain walked yet
NoWalk == [events |-> <<>>, results |-> <<>>]

\* no TypedClient call made yet
NoTyped ==
  [phase |-> "none", kind |-> "none", option |-> {}, validateEvents |-> FALSE,
   events |-> <<>>, idx |-> 0, trace |-> <<>>]

\* no OAuth flow started yet
NoOAuth ==
  [fn |-> "none", pc |-> "idle", promise |-> "pending", timer |-> FALSE,
   listening |-> FALSE, closeTimer |-> FALSE, first |-> "none",
   outcome |-> "none", how |-> "none"]

\* the Client after construction; no log() call made yet
Init ==
  /\ maxRetries \in 0..MaxRetriesBound
  /\ localMode \in BOOLEAN
  /\ localModeBannerShown = FALSE
  /\ event = NoEvent
  /\ pc = "idle"
  /\ attempt = 0
  /\ fetches = 0
  /\ sleeps = 0
  /\ hist = <<>>
  /\ delays = <<>>
  /\ timer = FALSE
  /\ result = NoResult
  /\ retryHeader = NoHeaders
  /\ retryAfter = Undefined
  /\ ctorArgs = NoCtorArgs
  /\ inst = NoInstance
  /\ instRequested = FALSE
  /\ vevent = NoVerifyEvent
  /\ vknown = Absent
  /\ vres = NoVerifyResult
  /\ vorig = {}
  /\ calls = [i \in 1..2 |-> IdleCall]
  /\ walk = NoWalk
  /\ typed = NoTyped
  /\ oauth = NoOAuth

(* ------------------------- steps of log() ------------------------------ *)

Http(status) == [kind |-> "http", status |-> status]

NetworkFailure == [kind |-> "neterr", status |-> NoStatus]

TimedOut == [kind |-> "timeout", status |-> NoStatus]

\* the call settles: return value or thrown error
Settle(r) ==
  /\ pc' = r.kind
  /\ result' = r

\* top of the while (true) body: new AbortController, setTimeout, fetch()
StartAttempt ==
  /\ timer' = TRUE
  /\ fetches' = fetches + 1
  /\ pc' = "fetch"

\* the catch block of the retry loop, entered with `error` by the attempt
\* that just ended
CatchBlock_NoClear(error) ==
  /\ timer' = timer
  /\ IF IsTerminalError(error)
     THEN /\ Settle(Rejected(error))
          /\ UNCHANGED <<attempt, sleeps, delays>>
     ELSE IF ShouldRetry(error, attempt, maxRetries)
     THEN /\ attempt' = attempt + 1
          /\ \E r \in RandomSamples : delays' = Append(delays, Delay(attempt + 1, r))
          /\ sleeps' = sleeps + 1
          /\ pc' = "sleep"
          /\ UNCHANGED result
     ELSE /\ Settle(Rejected(FinalError(error, fetches)))
          /\ UNCHANGED <<attempt, sleeps, delays>>

CatchBlock_SleepOnExit(error) ==
  /\ timer' = FALSE
  /\ IF IsTerminalError(error)
     THEN /\ Settle(Rejected(error))
          /\ UNCHANGED <<attempt, sleeps, delays>>
     ELSE IF ShouldRetry(error, attempt, maxRetries)
     THEN /\ attempt' = attempt + 1
          /\ \E r \in RandomSamples : delays' = Append(delays, Delay(attempt + 1, r))
          /\ sleeps' = sleeps + 1
          /\ pc' = "sleep"
          /\ UNCHANGED result
     ELSE /\ Settle(Rejected(FinalError(error, fetches)))
          /\ sleeps' = sleeps + 1
          /\ UNCHANGED <<attempt, delays>>

CatchBlock(error) ==
  /\ timer' = FALSE
  /\ IF IsTerminalError(error)
     THEN /\ Settle(Rejected(error))
          /\ UNCHANGED <<attempt, sleeps, delays>>
     ELSE IF ShouldRetry(error, attempt, maxRetries)
     THEN /\ attempt' = attempt + 1
          /\ \E r \in RandomSamples : delays' = Append(delays, Delay(attempt + 1, r))
          /\ sleeps' = sleeps + 1
          /\ pc' = "sleep"
          /\ UNCHANGED result
     ELSE /\ Settle(Rejected(FinalError(error, fetches)))
          /\ UNCHANGED <<attempt, sleeps, delays>>

\* log(event) is called: local mode, input sanitization, fail-safe
\* serialization, and the first pass through the loop up to await fetch()
Log(e) ==
  /\ pc = "idle"
  /\ event' = e
  /\ UNCHANGED <<maxRetries, localMode, attempt, sleeps, hist, delays>>
  /\ UNCHANGED <<retryHeader, retryAfter, auxVars>>
  /\ IF localMode
     THEN /\ localModeBannerShown' = TRUE
          /\ Settle(IF e.cyclic THEN Rejected(RangeError(0)) ELSE Resolved("local"))
          /\ UNCHANGED <<fetches, timer>>
     ELSE /\ UNCHANGED localModeBannerShown
          /\ IF ~ACTION_REGEX_test(e.action)
             THEN /\ Settle(Rejected(ValidationError(NoStatus, 0)))
                  /\ UNCHANGED <<fetches, timer>>
             ELSE IF e.cyclic
             THEN /\ Settle(SerializationCatch(MkError("TypeError", "TypeError", NoStatus, 0)))
                  /\ UNCHANGED <<fetches, timer>>
             ELSE IF e.units > PayloadLimit
             THEN /\ Settle(SerializationCatch(ValidationError(NoStatus, 0)))
                  /\ UNCHANGED <<fetches, timer>>
             ELSE /\ StartAttempt
                  /\ UNCHANGED result

\* await fetch() resolves with a response of the given status
FetchResponds(status) ==
  /\ pc = "fetch"
  /\ hist' = Append(hist, Http(status))
  /\ UNCHANGED <<maxRetries, localMode, localModeBannerShown, event, fetches>>
  /\ UNCHANGED auxVars
  /\ IF status = 429
     THEN \E h \in RetryAfterHeaders :
            /\ retryHeader' = h
            /\ retryAfter' = RetryAfterOf(h)
     ELSE UNCHANGED <<retryHeader, retryAfter>>
  /\ IF ResponseOk(status)
     THEN /\ timer' = FALSE
          /\ pc' = "json"
          /\ UNCHANGED <<attempt, sleeps, delays, result>>
     ELSE IF status = 401
     THEN CatchBlock(AuthenticationError(fetches))
     ELSE IF status = 422
     THEN /\ timer' = FALSE
          /\ pc' = "json422"
          /\ UNCHANGED <<attempt, sleeps, delays, result>>
     ELSE IF status = 429
     THEN CatchBlock(RateLimitError(fetches))
     ELSE CatchBlock(APIError(status, fetches))

\* await fetch() rejects: connection-level failure
FetchRejects ==
  /\ pc = "fetch"
  /\ hist' = Append(hist, NetworkFailure)
  /\ UNCHANGED <<maxRetries, localMode, localModeBannerShown, event, fetches>>
  /\ UNCHANGED <<retryHeader, retryAfter, auxVars>>
  /\ CatchBlock(FetchTypeError(fetches))

\* the setTimeout callback runs controller.abort(); fetch() rejects with
\* an AbortError
TimeoutFires ==
  /\ pc = "fetch"
  /\ timer
  /\ hist' = Append(hist, TimedOut)
  /\ UNCHANGED <<maxRetries, localMode, localModeBannerShown, event, fetches>>
  /\ UNCHANGED <<retryHeader, retryAfter, auxVars>>
  /\ CatchBlock(AbortError(fetches))

\* await response.json() of an ok response settles
JsonSettles(parsed) ==
  /\ pc = "json"
  /\ UNCHANGED <<maxRetries, localMode, localModeBannerShown, event, fetches, hist>>
  /\ UNCHANGED <<retryHeader, retryAfter, auxVars>>
  /\ IF parsed
     THEN /\ Settle(Resolved("response"))
          /\ UNCHANGED <<attempt, sleeps, delays, timer>>
     ELSE CatchBlock(JsonSyntaxError(fetches))

\* await response.json() of a 422 response settles; a parse error is ignored
Json422Settles(parsed) ==
  /\ pc = "json422"
  /\ UNCHANGED <<maxRetries, localMode, localModeBannerShown, event, fetches, hist>>
  /\ UNCHANGED <<retryHeader, retryAfter, auxVars>>
  /\ CatchBlock(ValidationError(422, fetches))

\* await this.sleep(delay) is over: continue
SleepDone ==
  /\ pc = "sleep"
  /\ StartAttempt
  /\ UNCHANGED <<maxRetries, localMode, localModeBannerShown, event, attempt,
                 sleeps, hist, delays, result>>
  /\ UNCHANGED <<retryHeader, retryAfter, auxVars>>

Next ==
  \/ \E e \in Events : Log(e)
  \/ \E status \in Statuses : FetchResponds(status)
  \/ FetchRejects
  \/ TimeoutFires
  \/ \E parsed \in BOOLEAN : JsonSettles(parsed)
  \/ \E parsed \in BOOLEAN : Json422Settles(parsed)
  \/ SleepDone

Spec == Init /\ [][Next]_vars

\* the caller makes the call and every pending await settles: the attempt
\* (response, failure or timeout), the body read, the backoff timer
FairSpec ==
  /\ Init
  /\ [][Next]_vars
  /\ WF_vars(\E e \in Events : Log(e))
  /\ WF_vars((\E status \in Statuses : FetchResponds(status)) \/ FetchRejects \/ TimeoutFires)
  /\ WF_vars(\E parsed \in BOOLEAN : JsonSettles(parsed))
  /\ WF_vars(\E parsed \in BOOLEAN : Json422Settles(parsed))
  /\ WF_vars(SleepDone)

(* ------------------------------ claims --------------------------------- *)

Settled == pc \in {"resolved", "rejected"}

Last(s) == s[Len(s)]

\* an attempt that ended in a status >= 500, a network error or a timeout
RetryableFailure(o) ==
  o.kind \in {"neterr", "timeout"} \/ (o.kind = "http" /\ o.status >= 500)

TwoXX(o) == o.kind = "http" /\ o.status >= 200 /\ o.status <= 299

TerminalStatus(o) == o.kind = "http" /\ o.status \in {401, 422, 429}

TerminalClass(status) ==
  IF status = 401 THEN "AuthenticationError"
  ELSE IF status = 422 THEN "ValidationError"
  ELSE "RateLimitError"

\* C1: when every await settles, a log() call settles, and it never issues
\* more than maxRetries + 1 network attempts (nor more than maxRetries
\* backoff sleeps)
C1_Terminates ==
  /\ [](fetches <= maxRetries + 1 /\ sleeps <= maxRetries)
  /\ ((pc # "idle") ~> Settled)

C1_Witness ==
  /\ Settled
  /\ maxRetries >= 2
  /\ fetches = maxRetries + 1
  /\ \E i \in 1..Len(hist) : hist[i].kind = "timeout"

\* C2: a call all of whose attempts ended in a status >= 500, a network
\* error or a timeout has, once settled, issued exactly maxRetries + 1
\* attempts and rejected
C2_ExactAttempts ==
  (Settled /\ hist # <<>> /\ \A i \in 1..Len(hist) : RetryableFailure(hist[i]))
    => (pc = "rejected" /\ fetches = maxRetries + 1 /\ Len(hist) = maxRetries + 1)

C2_Witness ==
  /\ pc = "rejected"
  /\ maxRetries = 2
  /\ Len(hist) = 3
  /\ hist[1] = TimedOut
  /\ hist[2] = NetworkFailure
  /\ hist[3] = Http(503)

C4_SuccessAfterRetries ==
  \A j \in 1..Len(hist) :
    (TwoXX(hist[j]) /\ \A i \in 1..(j - 1) : RetryableFailure(hist[i])) =>
      /\ Len(hist) = j
      /\ fetches = j
      /\ sleeps = j - 1
      /\ pc \in {"json", "resolved"}
      /\ (pc = "resolved" => result.value = "response")

\* C5: a call that rejects with its retry budget used up rejects with the
\* error of its last attempt: an APIError made by that attempt, carrying
\* the status of the last response when there was one
C5_LastErrorSurfaced ==
  (pc = "rejected" /\ hist # <<>> /\ attempt = maxRetries
     /\ (RetryableFailure(Last(hist)) \/ TwoXX(Last(hist))))
    => /\ result.error.cls = "APIError"
       /\ result.error.name = "APIError"
       /\ result.error.at = Len(hist)
       /\ result.error.statusCode =
            (IF RetryableFailure(Last(hist)) THEN Last(hist).status ELSE NoStatus)

C5_Witness ==
  /\ pc = "rejected"
  /\ maxRetries >= 1
  /\ attempt = maxRetries
  /\ hist[1] = NetworkFailure
  /\ Last(hist) = Http(503)
  /\ result.error.statusCode = 503
  /\ result.error.at = Len(hist)

\* C6: in network mode an event whose action does not match the published
\* pattern (lowercase dot-separated segments) or whose body is over the
\* 1 MiB limit is rejected with ValidationError before any attempt
C6_PreflightRejects ==
  (pc # "idle" /\ ~localMode
     /\ (~ACTION_PATTERN_test(event.action) \/ (~event.cyclic /\ event.units > PayloadLimit)))
    => (pc = "rejected" /\ result.error.cls = "ValidationError" /\ fetches = 0 /\ sleeps = 0)

\* C7: in network mode a format-valid event that cannot be serialized makes
\* log() resolve with the marked failure value, with no network attempt
\* and no retry budget used
C7_FailSafeSerialization ==
  (pc # "idle" /\ ~localMode /\ event.cyclic /\ ACTION_REGEX_test(event.action))
    => /\ pc = "resolved"
       /\ result.value = "failed-serialization"
       /\ fetches = 0
       /\ sleeps = 0
       /\ attempt = 0

C7_Witness ==
  /\ pc = "resolved"
  /\ ~localMode
  /\ event.cyclic
  /\ result.value = "failed-serialization"

\* C8: in network mode every rejection of log() carries one of the four
\* SDK error classes
C8_TypedRejection ==
  (pc = "rejected" /\ ~localMode)
    => result.error.cls \in {"AuthenticationError", "ValidationError", "RateLimitError", "APIError"}

C8_Witness ==
  /\ pc = "rejected"
  /\ ~localMode
  /\ hist # <<>>
  /\ Last(hist) = TimedOut
  /\ result.error.cls = "APIError"

\* C9: log() resolves with a parsed server response only when its latest
\* attempt received a 2xx response
C9_ResolveOnly2xx ==
  (pc = "resolved" /\ result.value = "response")
    => (hist # <<>> /\ TwoXX(Last(hist)) /\ fetches = Len(hist))

C9_Witness ==
  /\ pc = "resolved"
  /\ result.value = "response"
  /\ Len(hist) >= 2
  /\ Last(hist) = Http(200)

\* C10: the delay before the k-th retry lies in [2^k * 1000, 2^k * 1000 + 500)
\* and the delays of one call are strictly increasing
C10_BackoffRange ==
  /\ Len(delays) = sleeps
  /\ \A k \in 1..Len(delays) :
       /\ delays[k] >= Pow2(k) * 1000
       /\ delays[k] < Pow2(k) * 1000 + 500
       /\ (k > 1 => delays[k] > delays[k - 1])

C10_Witness ==
  /\ Len(delays) >= 2
  /\ delays[1] = 2499
  /\ delays[2] = 4000

\* C12: an attempt whose timeout elapses is aborted and ends as a
\* retryable failure: the call goes to a backoff sleep while
\* attempt < maxRetries and otherwise rejects with an APIError; the attempt
\* does not stay pending and its timer is no longer armed
C12_TimeoutRetryable ==
  [][(pc = "fetch" /\ hist' = Append(hist, TimedOut)) =>
       /\ ~timer'
       /\ fetches' = Len(hist')
       /\ IF attempt < maxRetries
          THEN pc' = "sleep" /\ attempt' = attempt + 1
          ELSE pc' = "rejected" /\ result'.error.cls = "APIError"]_vars

C12_Witness ==
  /\ pc = "rejected"
  /\ Len(hist) >= 2
  /\ hist[1] = TimedOut
  /\ Last(hist) = TimedOut
  /\ result.error.cls = "APIError"

\* C13: a call that has settled or sleeps between attempts has no timeout
\* timer armed and no request in flight; a timer is armed only while a
\* request is awaited, and at most one request is in flight
C13_ResourcesReleased ==
  /\ (pc \in {"resolved", "rejected", "sleep"} => (~timer /\ fetches = Len(hist)))
  /\ (timer => pc = "fetch")
  /\ fetches - Len(hist) \in {0, 1}

C13_Witness ==
  /\ pc = "sleep"
  /\ ~timer
  /\ Last(hist) = NetworkFailure
  /\ fetches = Len(hist)

\* the response carries a Retry-After header with a value
HeaderPresent(h) == h.access = "ok" /\ h.present /\ h.value # <<>>

\* C15: a 429 ends the call with a RateLimitError and no retry, whatever
\* the headers object does; retryAfter is an integer when the Retry-After
\* header is present and undefined when it is absent
C15_RetryAfterParsed ==
  (hist # <<>> /\ Last(hist) = Http(429)) =>
    /\ pc = "rejected"
    /\ result.error.cls = "RateLimitError"
    /\ fetches = Len(hist)
    /\ sleeps = Len(hist) - 1
    /\ (HeaderPresent(retryHeader) => retryAfter.kind = "number")
    /\ (~HeaderPresent(retryHeader) => retryAfter = Undefined)

\* ---------------------------------------------------------------------
\* constructor: new Client(apiKey) / new Client(options)
\* ---------------------------------------------------------------------

DefaultMaxRetries == 3

\* API keys as sequences of the pieces the prefix test can tell apart
LiveKey == <<"lv_", "live_", "x">>
TestKey == <<"lv_", "test_", "x">>
Keys ==
  { <<>>, LiveKey, TestKey, <<"lv_", "live_">>, <<"lv_", "x">>,
    <<"live_", "x">>, <<"x", "lv_", "live_">> }

StartsWith(s, prefix) ==
  Len(s) >= Len(prefix) /\ SubSeq(s, 1, Len(prefix)) = prefix

\* the arguments `new Client` is called with: a key string, or an options
\* object whose apiKey, localMode and maxRetries may each be left out
CtorArgs ==
  { [form |-> "string", apiKey |-> Some(k), localMode |-> "undefined",
     nodeEnv |-> env, maxRetries |-> Absent] :
       k \in Keys, env \in {"development", "production"} }
  \cup
  { [form |-> "options", apiKey |-> k, localMode |-> lm, nodeEnv |-> env,
     maxRetries |-> mr] :
       k \in {Absent} \cup {Some(x) : x \in Keys},
       lm \in {"undefined", "false", "true", "auto"},
       env \in {"development", "production"},
       mr \in {Absent, Some(0)} }

\* this.localMode after the assignments of the constructor
CtorLocalMode_AutoAlways(args) ==
  IF args.form = "string" THEN FALSE
  ELSE IF args.localMode = "auto" THEN TRUE
  ELSE args.localMode = "true"

CtorLocalMode(args) ==
  IF args.form = "string" THEN FALSE
  ELSE IF args.localMode = "auto" THEN args.nodeEnv = "development"
  ELSE args.localMode = "true"

\* this.maxRetries after the assignments of the constructor
CtorMaxRetries(args) ==
  IF args.form = "string" \/ args.maxRetries = Absent
  THEN DefaultMaxRetries
  ELSE CHOOSE n \in args.maxRetries : TRUE

\* !this.apiKey: undefined or the empty string
KeyFalsy(key) == key = Absent \/ key = Some(<<>>)

\* the prefix test on a key that is a non-empty string
KeyPrefixed(key) ==
  \E k \in key : StartsWith(k, <<"lv_", "live_">>) \/ StartsWith(k, <<"lv_", "test_">>)

logVars ==
  <<maxRetries, localMode, localModeBannerShown, event, pc, attempt, fetches,
    sleeps, hist, delays, timer, result, retryHeader, retryAfter>>

verifyVars == <<vevent, vknown, vres, vorig>>

ctorVars == <<ctorArgs, inst, instRequested>>

Construct(args) ==
  /\ inst.state = "none"
  /\ ctorArgs' = args
  /\ LET lm == CtorLocalMode(args)
         made == [state |-> "constructed", apiKey |-> args.apiKey,
                  localMode |-> lm, maxRetries |-> CtorMaxRetries(args),
                  error |-> "none"]
         thrown == [made EXCEPT !.state = "failed",
                                !.error = "AuthenticationError"]
     IN inst' = IF lm THEN made
                ELSE IF KeyFalsy(args.apiKey) THEN thrown
                ELSE IF ~KeyPrefixed(args.apiKey) THEN thrown
                ELSE made
  /\ UNCHANGED <<instRequested, logVars, verifyVars, calls, extVars>>

\* listEvents (like the other query methods) sends a request carrying
\* this.apiKey, in local mode too
ListEvents ==
  /\ inst.state = "constructed"
  /\ ~instRequested
  /\ instRequested' = TRUE
  /\ UNCHANGED <<ctorArgs, inst, logVars, verifyVars, calls, extVars>>

CtorNext ==
  \/ \E args \in CtorArgs : Construct(args)
  \/ ListEvents

CtorSpec == Init /\ [][CtorNext]_vars

\* the key is a non-empty string with one of the two prefixes
ValidKey(key) ==
  \E k \in key : k # <<>> /\ (SubSeq(k, 1, 2) = <<"lv_", "live_">>
                              \/ SubSeq(k, 1, 2) = <<"lv_", "test_">>)

\* local mode is switched on by the options
LocalModeActive(args) ==
  /\ args.form = "options"
  /\ \/ args.localMode = "true"
     \/ args.localMode = "auto" /\ args.nodeEnv = "development"

\* C11 as stated: construction with an empty or unprefixed key fails with
\* AuthenticationError for every constructor argument, and no instance
\* with such a key issues a request
C11_KeyAlwaysValidated ==
  (ctorArgs.form # "none" /\ ~ValidKey(ctorArgs.apiKey)) =>
    /\ inst.state = "failed"
    /\ inst.error = "AuthenticationError"
    /\ ~instRequested

\* C11, amended: construction with an empty or unprefixed key fails with
\* AuthenticationError exactly when local mode is not active; outside
\* local mode no instance with such a key exists, so every request of a
\* non-local instance carries a valid key
C11_KeyValidatedUnlessLocal ==
  ctorArgs.form # "none" =>
    /\ inst.state \in {"constructed", "failed"}
    /\ (inst.state = "failed") <=>
         (~ValidKey(ctorArgs.apiKey) /\ ~LocalModeActive(ctorArgs))
    /\ (inst.state = "failed") =>
         (inst.error = "AuthenticationError" /\ ~instRequested)
    /\ (inst.state = "constructed" /\ ~inst.localMode) => ValidKey(inst.apiKey)
    /\ (inst.state = "constructed" /\ inst.localMode) => LocalModeActive(ctorArgs)

C11_Witness ==
  /\ ctorArgs.form = "options"
  /\ ctorArgs.localMode = "auto"
  /\ ctorArgs.nodeEnv = "production"
  /\ ctorArgs.apiKey = Some(<<"lv_", "x">>)
  /\ inst.state = "failed"
  /\ inst.error = "AuthenticationError"

\* ---------------------------------------------------------------------
\* verifyEventLocally(event, prevChainHash?)
\* ---------------------------------------------------------------------

\* crypto.createHash("sha256").update(input).digest("hex"), taken as a
\* collision-free function: distinct inputs give distinct digests
Hash(input) == "sha256(" \o input \o ")"

\* String.prototype.substring(0, n)
Substring(s, n) == IF Len(s) <= n THEN s ELSE SubSeq(s, 1, n)

GENESIS_HASH ==
  "GENESIS_" \o Substring(Hash("LogVault_Chain_Genesis_2025"), 32)

\* a value that an `if`, `!` or `||` takes as true: a non-empty string
Truthy(o) == o # Absent /\ o # Some("")

ValueOf(o) == CHOOSE x \in o : TRUE

InitialChecks_HasChain ==
  [hasChainHash |-> TRUE, chainHashValid |-> FALSE, prevHashMatches |-> FALSE]

InitialChecks_PrevMatches ==
  [hasChainHash |-> FALSE, chainHashValid |-> FALSE, prevHashMatches |-> TRUE]

InitialChecks ==
  [hasChainHash |-> FALSE, chainHashValid |-> FALSE, prevHashMatches |-> FALSE]

\* prevChainHash || event.prev_hash || GENESIS_HASH
Prev_Nullish(e, k) ==
  IF k # Absent THEN ValueOf(k)
  ELSE IF e.prev_hash # Absent THEN ValueOf(e.prev_hash)
  ELSE GENESIS_HASH

Prev(e, k) ==
  IF Truthy(k) THEN ValueOf(k)
  ELSE IF Truthy(e.prev_hash) THEN ValueOf(e.prev_hash)
  ELSE GENESIS_HASH

\* `${event.signature}:${prev}:LogVault`
ChainInput_NoSignature(signature, prev) == ":" \o prev \o ":LogVault"

ChainInput(signature, prev) == signature \o ":" \o prev \o ":LogVault"

ExpectedChain(e, k) == Hash(ChainInput(e.signature, Prev(e, k)))

\* check 3: with a previous chain hash provided, event.prev_hash === it
Check3_Skip(e, k) == TRUE

Check3(e, k) == IF Truthy(k) THEN e.prev_hash = k ELSE TRUE

LegacyDetails == "Event has no chain_hash (legacy event)"
PrevMismatchDetails == "prev_hash mismatch with provided previous chain hash"
VerifiedDetails == "Event chain integrity verified"
ChainMismatchDetails(expected, got) ==
  "Chain hash mismatch. Expected: " \o Substring(expected, 16)
    \o "..., Got: " \o Substring(got, 16) \o "..."

VerifyResult(isValid, checks, details) ==
  [called |-> TRUE, isValid |-> isValid,
   hasChainHash |-> checks.hasChainHash,
   chainHashValid |-> checks.chainHashValid,
   prevHashMatches |-> checks.prevHashMatches,
   details |-> details]

verifyEventLocally(e, k) ==
  IF ~Truthy(e.chain_hash)
  THEN VerifyResult(FALSE, InitialChecks, LegacyDetails)
  ELSE
    LET c1 == [InitialChecks EXCEPT !.hasChainHash = TRUE]
        expectedChain == ExpectedChain(e, k)
    IN IF Some(expectedChain) # e.chain_hash
       THEN VerifyResult(FALSE, c1,
                         ChainMismatchDetails(expectedChain, ValueOf(e.chain_hash)))
       ELSE
         LET c2 == [c1 EXCEPT !.chainHashValid = TRUE]
         IN IF Check3(e, k)
            THEN VerifyResult(TRUE, [c2 EXCEPT !.prevHashMatches = TRUE],
                              VerifiedDetails)
            ELSE VerifyResult(FALSE, c2, PrevMismatchDetails)

\* inputs: two signatures, previous hashes left out, empty, the genesis
\* anchor or some other hash, and chain hashes left out, empty, wrong, or
\* the digest for one of the signatures and previous hashes
Sigs == {"sig1", "sig2"}
PrevStrings == {"", GENESIS_HASH, "p1"}
PrevOpts == {Absent} \cup {Some(p) : p \in PrevStrings}
ChainOpts ==
  {Absent, Some(""), Some("f00d")}
    \cup {Some(Hash(ChainInput(s, p))) : s \in Sigs, p \in PrevStrings}
VerifyEvents ==
  [signature : Sigs, prev_hash : PrevOpts, chain_hash : ChainOpts]

Verify(e, k) ==
  /\ ~vres.called
  /\ vevent' = e
  /\ vknown' = k
  /\ vres' = verifyEventLocally(e, k)
  /\ UNCHANGED <<vorig, logVars, ctorVars, calls, extVars>>

\* the event is altered in one field and verified again against the same
\* previous chain hash; vorig keeps the arguments and result from before
TamperSignature(s) ==
  /\ vres.called
  /\ vorig = {}
  /\ s # vevent.signature
  /\ vorig' = {[event |-> vevent, known |-> vknown, res |-> vres]}
  /\ vevent' = [vevent EXCEPT !.signature = s]
  /\ vres' = verifyEventLocally(vevent', vknown)
  /\ UNCHANGED <<vknown, logVars, ctorVars, calls, extVars>>

TamperPrevHash(p) ==
  /\ vres.called
  /\ vorig = {}
  /\ p # vevent.prev_hash
  /\ vorig' = {[event |-> vevent, known |-> vknown, res |-> vres]}
  /\ vevent' = [vevent EXCEPT !.prev_hash = p]
  /\ vres' = verifyEventLocally(vevent', vknown)
  /\ UNCHANGED <<vknown, logVars, ctorVars, calls, extVars>>

VerifyNext ==
  \/ \E e \in VerifyEvents, k \in PrevOpts : Verify(e, k)
  \/ \E s \in Sigs : TamperSignature(s)
  \/ \E p \in PrevOpts : TamperPrevHash(p)

VerifySpec == Init /\ [][VerifyNext]_vars

\* C16: an event with no chain_hash gets a result (no exception) with
\* isValid = false and hasChainHash = false and the legacy-event detail,
\* whatever its other fields and whatever previous chain hash is passed
C16_LegacyEvent ==
  (vres.called /\ vevent.chain_hash = Absent) =>
    /\ ~vres.isValid
    /\ ~vres.hasChainHash
    /\ ~vres.chainHashValid
    /\ ~vres.prevHashMatches
    /\ vres.details = LegacyDetails

C16_Witness ==
  /\ vres.called
  /\ vevent.chain_hash = Absent
  /\ vevent.prev_hash = Some("p1")
  /\ vknown = Some("p1")
  /\ vres.details = LegacyDetails

\* the previous hash the chain hash is computed over: the supplied one
\* when it is a non-empty string, else the event's prev_hash when that is
\* a non-empty string, else the genesis anchor
EffectivePrev(e, k) ==
  IF k # Absent /\ k # Some("") THEN ValueOf(k)
  ELSE IF e.prev_hash # Absent /\ e.prev_hash # Some("") THEN ValueOf(e.prev_hash)
  ELSE GENESIS_HASH

\* the previous hash when only a left-out value falls through
NullishPrev(e, k) ==
  IF k # Absent THEN ValueOf(k)
  ELSE IF e.prev_hash # Absent THEN ValueOf(e.prev_hash)
  ELSE GENESIS_HASH

Digest(signature, prev) == "sha256(" \o signature \o ":" \o prev \o ":LogVault)"

\* C17 as stated: for an event with a chain_hash, chainHashValid is true
\* exactly when chain_hash is the hash of signature:prev:LogVault with
\* prev the supplied hash, else the event's prev_hash, else the genesis
\* anchor, where only a left-out value falls through and an empty string
\* is used as given
C17_ChainHashNullish ==
  (vres.called /\ vevent.chain_hash # Absent) =>
    (vres.chainHashValid <=>
       vevent.chain_hash = Some(Digest(vevent.signature, NullishPrev(vevent, vknown))))

\* C17, amended: for an event with a non-empty chain_hash, chainHashValid
\* is true exactly when chain_hash is the hash of signature:prev:LogVault,
\* where a left-out or empty supplied hash or prev_hash falls through to
\* the next alternative
C17_ChainHashFalsy ==
  (vres.called /\ vevent.chain_hash # Absent /\ vevent.chain_hash # Some("")) =>
    /\ vres.hasChainHash
    /\ vres.chainHashValid <=>
         vevent.chain_hash = Some(Digest(vevent.signature, EffectivePrev(vevent, vknown)))

C17_Witness ==
  /\ vres.called
  /\ vorig = {}
  /\ vknown = Some("")
  /\ vevent.prev_hash = Some("p1")
  /\ vevent.chain_hash = Some(Digest("sig1", "p1"))
  /\ vevent.signature = "sig1"
  /\ vres.chainHashValid

\* C18 as stated: for an event with a chain_hash, when a (non-empty)
\* previous chain hash is supplied and event.prev_hash differs from it, the result is
\* invalid with the prev_hash-mismatch detail, whether the chain-hash check
\* passed or failed
C18_PrevMismatchAlways ==
  (vres.called /\ Truthy(vevent.chain_hash)
     /\ Truthy(vknown) /\ vevent.prev_hash # vknown) =>
    /\ ~vres.isValid
    /\ vres.details = PrevMismatchDetails

\* C18, amended: for an event with a chain_hash, when a non-empty previous
\* chain hash is supplied and event.prev_hash differs from it, the result
\* is invalid with prevHashMatches = false; the detail is the
\* prev_hash-mismatch message when the chain-hash check passed and the
\* chain-hash-mismatch message when it failed
C18_PrevMismatchAfterChain ==
  (vres.called /\ Truthy(vevent.chain_hash)
     /\ vknown # Absent /\ vknown # Some("") /\ vevent.prev_hash # vknown) =>
    /\ ~vres.isValid
    /\ ~vres.prevHashMatches
    /\ vres.chainHashValid => vres.details = PrevMismatchDetails
    /\ ~vres.chainHashValid =>
         vres.details =
           ChainMismatchDetails(Digest(vevent.signature, ValueOf(vknown)),
                                ValueOf(vevent.chain_hash))

C18_Witness ==
  /\ vres.called
  /\ vorig = {}
  /\ vknown = Some("p1")
  /\ vevent.prev_hash = Some(GENESIS_HASH)
  /\ vevent.chain_hash = Some(Digest(vevent.signature, "p1"))
  /\ vres.chainHashValid
  /\ ~vres.isValid
  /\ vres.details = PrevMismatchDetails

\* the event and result before the alteration
Orig == CHOOSE o \in vorig : TRUE

Tampered == vorig # {} /\ Orig.res.isValid

\* C19 as stated: once an event is reported valid, replacing its signature
\* or its (non-empty) prev_hash by any different non-empty value makes the result report
\* chainHashValid = false, with or without a supplied previous chain hash
C19_TamperFlipsChainHash ==
  (Tampered /\ Truthy(vevent.prev_hash) /\ Truthy(Orig.event.prev_hash)) =>
    ~vres.chainHashValid

\* C19, amended: once an event is reported valid, replacing its signature
\* by a different value gives chainHashValid = false; replacing its
\* prev_hash by a different value gives an invalid result with
\* prevHashMatches = false (chainHashValid still true) when a non-empty
\* previous chain hash is supplied, and chainHashValid = false when none is
\* supplied, except that exchanging the genesis anchor with an empty or
\* left-out prev_hash is not noticed
C19_TamperDetected ==
  Tampered =>
    /\ vevent.signature # Orig.event.signature => ~vres.chainHashValid
    /\ (vevent.prev_hash # Orig.event.prev_hash /\ Truthy(vknown)) =>
         /\ ~vres.isValid
         /\ vres.chainHashValid
         /\ ~vres.prevHashMatches
    /\ (vevent.prev_hash # Orig.event.prev_hash /\ ~Truthy(vknown)) =>
         IF EffectivePrev(vevent, vknown) # EffectivePrev(Orig.event, vknown)
         THEN ~vres.chainHashValid /\ ~vres.isValid
         ELSE vres.isValid

C19_Witness ==
  /\ Tampered
  /\ vknown = Absent
  /\ Orig.event.signature = "sig1"
  /\ vevent.signature = "sig2"
  /\ vevent.prev_hash = Some("p1")
  /\ ~vres.chainHashValid

\* ---------------------------------------------------------------------
\* verifyEventLocally called while log() calls are under way
\* ---------------------------------------------------------------------

SmallRetries == 1

MixedEvent ==
  [signature |-> "sig1", prev_hash |-> Some("p1"),
   chain_hash |-> Some(Hash(ChainInput("sig1", "p1")))]

MixedKnown == {Absent, Some(GENESIS_HASH)}

\* a call of verifyEventLocally at any point of a log() call; vorig keeps
\* the arguments and result of the call before it
MixedVerify_Banner(e, k) ==
  /\ vorig' = IF vres.called
              THEN {[event |-> vevent, known |-> vknown, res |-> vres]}
              ELSE {}
  /\ vevent' = e
  /\ vknown' = k
  /\ vres' = verifyEventLocally(e, k)
  /\ localModeBannerShown' = TRUE
  /\ UNCHANGED <<maxRetries, localMode, event, pc, attempt, fetches, sleeps,
                 hist, delays, timer, result, retryHeader, retryAfter,
                 ctorVars, calls, extVars>>

MixedVerify(e, k) ==
  /\ vorig' = IF vres.called
              THEN {[event |-> vevent, known |-> vknown, res |-> vres]}
              ELSE {}
  /\ vevent' = e
  /\ vknown' = k
  /\ vres' = verifyEventLocally(e, k)
  /\ UNCHANGED <<logVars, ctorVars, calls, extVars>>

MixedInit == Init /\ maxRetries <= SmallRetries

MixedNext ==
  \/ Next
  \/ \E k \in MixedKnown : MixedVerify(MixedEvent, k)

MixedSpec == MixedInit /\ [][MixedNext]_vars

CallIds == {1, 2}

TwoCallEvents ==
  { [action |-> <<"a", ".", "a">>, units |-> PayloadLimit, cyclic |-> FALSE],
    [action |-> <<"a">>, units |-> PayloadLimit, cyclic |-> FALSE] }

TwoCallStatuses == {200, 422, 503}

TwoCallSamples == {0}

CallSettle(c, r) == [c EXCEPT !.pc = r.kind, !.result = r]

CallStartAttempt(c) ==
  [c EXCEPT !.timer = TRUE, !.fetches = @ + 1, !.pc = "fetch"]

\* `let attempt = 0` is a local of the call
CallAttempt_Shared(i) == calls[1].attempt + calls[2].attempt

CallAttempt(i) == calls[i].attempt

\* the call after the catch block ran with `error`; r is Math.random()
CallCatch(i, c, error, r) ==
  LET cleared == [c EXCEPT !.timer = FALSE]
  IN IF IsTerminalError(error)
     THEN CallSettle(cleared, Rejected(error))
     ELSE IF ShouldRetry(error, CallAttempt(i), maxRetries)
     THEN [cleared EXCEPT !.attempt = @ + 1,
                          !.delays = Append(@, Delay(c.attempt + 1, r)),
                          !.sleeps = @ + 1,
                          !.pc = "sleep"]
     ELSE CallSettle(cleared, Rejected(FinalError(error, c.fetches)))

CallLog(i, e) ==
  /\ calls[i].pc = "idle"
  /\ LET c == [calls[i] EXCEPT !.event = e]
     IN IF localMode
        THEN /\ localModeBannerShown' = TRUE
             /\ calls' = [calls EXCEPT ![i] =
                   CallSettle(c, IF e.cyclic THEN Rejected(RangeError(0))
                                 ELSE Resolved("local"))]
        ELSE /\ UNCHANGED localModeBannerShown
             /\ calls' = [calls EXCEPT ![i] =
                   IF ~ACTION_REGEX_test(e.action)
                   THEN CallSettle(c, Rejected(ValidationError(NoStatus, 0)))
                   ELSE IF e.cyclic
                   THEN CallSettle(c, SerializationCatch(
                                        MkError("TypeError", "TypeError", NoStatus, 0)))
                   ELSE IF e.units > PayloadLimit
                   THEN CallSettle(c, SerializationCatch(ValidationError(NoStatus, 0)))
                   ELSE CallStartAttempt(c)]
  /\ UNCHANGED <<maxRetries, localMode, event, pc, attempt, fetches, sleeps,
                 hist, delays, timer, result, retryHeader, retryAfter,
                 ctorVars, verifyVars, extVars>>

twoCallFrame ==
  <<maxRetries, localMode, localModeBannerShown, event, pc, attempt, fetches,
    sleeps, hist, delays, timer, result, retryHeader, retryAfter, ctorVars,
    verifyVars, extVars>>

CallFetchResponds(i, status) ==
  /\ calls[i].pc = "fetch"
  /\ LET c == [calls[i] EXCEPT !.hist = Append(@, Http(status))]
     IN \E r \in TwoCallSamples :
          calls' = [calls EXCEPT ![i] =
            IF ResponseOk(status)
            THEN [c EXCEPT !.timer = FALSE, !.pc = "json"]
            ELSE IF status = 401
            THEN CallCatch(i, c, AuthenticationError(c.fetches), r)
            ELSE IF status = 422
            THEN [c EXCEPT !.timer = FALSE, !.pc = "json422"]
            ELSE IF status = 429
            THEN CallCatch(i, c, RateLimitError(c.fetches), r)
            ELSE CallCatch(i, c, APIError(status, c.fetches), r)]
  /\ UNCHANGED twoCallFrame

CallFetchRejects(i) ==
  /\ calls[i].pc = "fetch"
  /\ LET c == [calls[i] EXCEPT !.hist = Append(@, NetworkFailure)]
     IN \E r \in TwoCallSamples :
          calls' = [calls EXCEPT ![i] = CallCatch(i, c, FetchTypeError(c.fetches), r)]
  /\ UNCHANGED twoCallFrame

CallTimeoutFires(i) ==
  /\ calls[i].pc = "fetch"
  /\ calls[i].timer
  /\ LET c == [calls[i] EXCEPT !.hist = Append(@, TimedOut)]
     IN \E r \in TwoCallSamples :
          calls' = [calls EXCEPT ![i] = CallCatch(i, c, AbortError(c.fetches), r)]
  /\ UNCHANGED twoCallFrame

CallJsonSettles(i, parsed) ==
  /\ calls[i].pc = "json"
  /\ LET c == [calls[i] EXCEPT !.parses = Append(@, parsed)]
     IN \E r \in TwoCallSamples :
          calls' = [calls EXCEPT ![i] =
            IF parsed
            THEN CallSettle(c, Resolved("response"))
            ELSE CallCatch(i, c, JsonSyntaxError(c.fetches), r)]
  /\ UNCHANGED twoCallFrame

CallJson422Settles(i, parsed) ==
  /\ calls[i].pc = "json422"
  /\ LET c == [calls[i] EXCEPT !.parses = Append(@, parsed)]
     IN \E r \in TwoCallSamples :
          calls' = [calls EXCEPT ![i] =
            CallCatch(i, c, ValidationError(422, c.fetches), r)]
  /\ UNCHANGED twoCallFrame

CallSleepDone(i) ==
  /\ calls[i].pc = "sleep"
  /\ calls' = [calls EXCEPT ![i] = CallStartAttempt(calls[i])]
  /\ UNCHANGED twoCallFrame

TwoCallInit == Init /\ maxRetries <= SmallRetries

TwoCallNext ==
  \/ \E i \in CallIds, e \in TwoCallEvents : CallLog(i, e)
  \/ \E i \in CallIds, status \in TwoCallStatuses : CallFetchResponds(i, status)
  \/ \E i \in CallIds : CallFetchRejects(i)
  \/ \E i \in CallIds : CallTimeoutFires(i)
  \/ \E i \in CallIds, parsed \in BOOLEAN : CallJsonSettles(i, parsed)
  \/ \E i \in CallIds, parsed \in BOOLEAN : CallJson422Settles(i, parsed)
  \/ \E i \in CallIds : CallSleepDone(i)

TwoCallSpec == TwoCallInit /\ [][TwoCallNext]_vars

CallSettled(c) == c.pc \in {"resolved", "rejected"}

\* what a caller sees of a settled call, and what the call did
CallOutcome(c) ==
  [kind |-> c.result.kind, value |-> c.result.value,
   cls |-> c.result.error.cls, statusCode |-> c.result.error.statusCode,
   attempts |-> c.fetches, delays |-> c.delays]

C21_LocalModeResolves ==
  (localMode /\ pc # "idle") =>
    /\ fetches = 0
    /\ sleeps = 0
    /\ pc = "resolved"
    /\ result = Resolved("local")

\* C23: a backoff sleep lies between two network attempts of the call:
\* the attempt counter always equals the number of sleeps, a call that has
\* made no attempt has not slept, a sleeping call has slept once per
\* attempt made, and otherwise (an attempt under way, or the call settled
\* after an attempt) the sleeps are one fewer than the attempts
C23_SleepsBetweenAttempts ==
  /\ attempt = sleeps
  /\ sleeps = Len(delays)
  /\ fetches = 0 => sleeps = 0
  /\ pc = "sleep" => (fetches >= 1 /\ sleeps = fetches)
  /\ (pc # "sleep" /\ fetches >= 1) => sleeps = fetches - 1

C23_Witness ==
  /\ pc = "rejected"
  /\ fetches = 3
  /\ sleeps = 2
  /\ attempt = 2
  /\ Last(hist) = Http(401)

\* C24: a backoff sleep in progress can be cancelled: in every state where
\* the call sleeps, a step is possible that settles the call without
\* starting another attempt
C24_SleepCancellable ==
  pc = "sleep" => ENABLED (Next /\ pc' \in {"resolved", "rejected"})

\* a response that is neither 2xx, nor 401, 422 or 429, nor >= 500
OtherClientError(o) ==
  /\ o.kind = "http"
  /\ ~TwoXX(o)
  /\ o.status < 500
  /\ o.status \notin {401, 422, 429}

\* C25: a non-2xx response below 500 other than 401, 422 and 429 ends the
\* call at once: log() rejects with an APIError carrying that status and
\* no further attempt or sleep follows, whatever budget remains
C25_ClientErrorNotRetried ==
  \A j \in 1..Len(hist) :
    OtherClientError(hist[j]) =>
      /\ j = Len(hist)
      /\ fetches = j
      /\ sleeps = j - 1
      /\ pc = "rejected"
      /\ result.error.cls = "APIError"
      /\ result.error.statusCode = hist[j].status

C25_Witness ==
  /\ maxRetries = 2
  /\ hist = <<Http(404)>>
  /\ pc = "rejected"
  /\ attempt = 0
  /\ result.error.statusCode = 404

\* C26: once an attempt of the call has received a 2xx response, the call
\* makes no further network attempt, even when reading the body fails
C26_NoRepostAfter2xx ==
  \A j \in 1..Len(hist) :
    TwoXX(hist[j]) => (j = Len(hist) /\ fetches = j /\ pc # "sleep")

\* C27: in every result of verifyEventLocally isValid is true exactly
\* when all three checks are true, and the checks are ordered:
\* prevHashMatches implies chainHashValid, which implies hasChainHash
C27_ChecksConsistent ==
  \A r \in {vres} \cup {o.res : o \in vorig} :
    r.called =>
      /\ r.isValid <=> (r.hasChainHash /\ r.chainHashValid /\ r.prevHashMatches)
      /\ r.prevHashMatches => r.chainHashValid
      /\ r.chainHashValid => r.hasChainHash

C27_Witness ==
  /\ vres.called
  /\ vres.hasChainHash
  /\ vres.chainHashValid
  /\ ~vres.prevHashMatches
  /\ ~vres.isValid
  /\ Tampered

\* ---------------------------------------------------------------------
\* a chain of events verified one after the other with verifyEventLocally
\* ---------------------------------------------------------------------

MaxChainLen == 2

\* the next event of the chain: its prev_hash is the link to the event
\* before it (the genesis anchor for the first event), left out, empty or
\* some other hash; its chain_hash is the digest over its signature and
\* its prev_hash as written, the digest over the genesis anchor, or wrong
PrevChoices == {"link", "absent", "empty", "other"}
ChainChoices == {"written", "genesis", "wrong"}

WalkEvent(w, sig, prevChoice, chainChoice) ==
  LET link == IF w.events = <<>> THEN Some(GENESIS_HASH)
              ELSE w.events[Len(w.events)].chain_hash
      prev == IF prevChoice = "link" THEN link
              ELSE IF prevChoice = "absent" THEN Absent
              ELSE IF prevChoice = "empty" THEN Some("")
              ELSE Some("p1")
      written == IF prev = Absent THEN "" ELSE ValueOf(prev)
      chain == IF chainChoice = "written" THEN Some(Hash(ChainInput(sig, written)))
               ELSE IF chainChoice = "genesis"
               THEN Some(Hash(ChainInput(sig, GENESIS_HASH)))
               ELSE Some("f00d")
  IN [signature |-> sig, prev_hash |-> prev, chain_hash |-> chain]

\* the prevChainHash argument for the next event of the walk: none for
\* the first event, the chain_hash of the event before it otherwise
WalkKnown_None(w) == Absent

WalkKnown(w) ==
  IF w.events = <<>> THEN Absent ELSE w.events[Len(w.events)].chain_hash

WalkNext(e) ==
  /\ Len(walk.events) < MaxChainLen
  /\ walk' = [events |-> Append(walk.events, e),
              results |-> Append(walk.results,
                                 verifyEventLocally(e, WalkKnown(walk)))]
  /\ UNCHANGED <<logVars, ctorVars, verifyVars, calls, typed, oauth>>

ChainInit == Init /\ maxRetries = 0 /\ ~localMode

ChainNext ==
  \E sig \in Sigs, pch \in PrevChoices, cch \in ChainChoices :
    WalkNext(WalkEvent(walk, sig, pch, cch))

ChainSpec == ChainInit /\ [][ChainNext]_vars

AllValid == \A i \in 1..Len(walk.results) : walk.results[i].isValid

\* chain_hash is the hash over the event's own signature and prev_hash
OwnDigest(e) ==
  e.prev_hash # Absent
    /\ e.chain_hash = Some(Digest(e.signature, ValueOf(e.prev_hash)))

\* ChainLink at position i with the genesis anchor required of e_1
ChainLink(i) ==
  LET e == walk.events[i]
  IN /\ OwnDigest(e)
     /\ IF i = 1 THEN e.prev_hash = Some(GENESIS_HASH)
        ELSE e.prev_hash = walk.events[i - 1].chain_hash

\* ChainLink at position i as verifyEventLocally tests it: the first
\* event is tested against its own prev_hash, whatever that is, and
\* against the genesis anchor only when it has no prev_hash or an empty one
ChainLinkAsVerified(i) ==
  LET e == walk.events[i]
  IN IF i = 1
     THEN e.chain_hash = Some(Digest(e.signature, EffectivePrev(e, Absent)))
     ELSE OwnDigest(e) /\ e.prev_hash = walk.events[i - 1].chain_hash

\* C22 as stated: all results of the walk are valid exactly when every
\* chain_hash is the hash of its event's signature and prev_hash, every
\* later prev_hash is the chain_hash of the event before, and the first
\* prev_hash is the genesis anchor
C22_WalkIffChainLink ==
  walk.events # <<>> =>
    (AllValid <=> \A i \in 1..Len(walk.events) : ChainLink(i))

\* C22, amended: all results of the walk are valid exactly when every
\* later event has the chain_hash of the event before it as prev_hash and
\* the hash of its signature and that prev_hash as chain_hash, and the
\* first event's chain_hash is the hash of its signature and its own
\* prev_hash (the genesis anchor when that is left out or empty); the
\* first prev_hash is not compared with the genesis anchor
C22_WalkIffVerifiedLinks ==
  walk.events # <<>> =>
    /\ Len(walk.results) = Len(walk.events)
    /\ AllValid <=> \A i \in 1..Len(walk.events) : ChainLinkAsVerified(i)

C22_Witness ==
  /\ Len(walk.events) = 2
  /\ AllValid
  /\ walk.events[1].prev_hash = Some("p1")
  /\ walk.events[2].prev_hash = walk.events[1].chain_hash

\* ---------------------------------------------------------------------
\* TypedClient: logTyped, logTypedBatch, createTypedLogger
\* ---------------------------------------------------------------------

\* an event handed to a typed call, with what schema.safeParse says of it
OkItem ==
  [event |-> [action |-> <<"a", ".", "a">>, cyclic |-> FALSE, units |-> PayloadLimit],
   schemaOk |-> TRUE]
BadSchemaItem == [OkItem EXCEPT !.schemaOk = FALSE]
CyclicItem == [OkItem EXCEPT !.event.cyclic = TRUE, !.event.units = 0]
BadActionItem == [OkItem EXCEPT !.event.action = <<"a">>]

TypedItems == {OkItem, BadSchemaItem, CyclicItem, BadActionItem}

TypedBatches ==
  { <<>>, <<OkItem, OkItem>>, <<OkItem, BadSchemaItem, OkItem>>,
    <<CyclicItem, BadSchemaItem>>, <<BadActionItem, OkItem>>,
    <<OkItem, CyclicItem, OkItem>> }

\* the validateEvents option: left out, true or false
ValidateOpts == {Absent, Some(TRUE), Some(FALSE)}

\* options.validateEvents ?? true
ValidateEventsOf_DefaultOff(opt) == IF opt = Absent THEN FALSE ELSE ValueOf(opt)

ValidateEventsOf(opt) == IF opt = Absent THEN TRUE ELSE ValueOf(opt)

\* logTyped(schema, event) on a TypedClient built with the option
LogTyped(opt, item) ==
  /\ typed.phase = "none"
  /\ pc = "idle"
  /\ typed' = [phase |-> "loop", kind |-> "logTyped", option |-> opt,
               validateEvents |-> ValidateEventsOf(opt),
               events |-> <<item>>, idx |-> 1, trace |-> <<>>]
  /\ UNCHANGED <<logVars, ctorVars, verifyVars, calls, walk, oauth>>

\* logTypedBatch(schema, events): the loop is entered, or the empty array
\* of results is returned
LogTypedBatch(opt, items) ==
  /\ typed.phase = "none"
  /\ pc = "idle"
  /\ typed' = [phase |-> IF items = <<>> THEN "resolved" ELSE "loop",
               kind |-> "batch", option |-> opt,
               validateEvents |-> ValidateEventsOf(opt),
               events |-> items, idx |-> 1, trace |-> <<>>]
  /\ UNCHANGED <<logVars, ctorVars, verifyVars, calls, walk, oauth>>

\* a logger made by createTypedLogger(client, schema) is called
TypedLogger(item) ==
  /\ typed.phase = "none"
  /\ pc = "idle"
  /\ typed' = [phase |-> "loop", kind |-> "logger", option |-> Absent,
               validateEvents |-> FALSE,
               events |-> <<item>>, idx |-> 1, trace |-> <<>>]
  /\ UNCHANGED <<logVars, ctorVars, verifyVars, calls, walk, oauth>>

\* safeParse is called: always by a typed logger, by logTyped when
\* this.validateEvents is set
SafeParseCalled(t) == t.kind = "logger" \/ t.validateEvents

\* what a call of the current event ended as
TraceEntry(kind, value, sent) == [kind |-> kind, value |-> value, sent |-> sent]

\* the head of logTyped (or of the typed logger) for the event at idx:
\* a failed safeParse throws, otherwise log() is about to be called
TypedValidate ==
  /\ typed.phase = "loop"
  /\ pc = "idle"
  /\ IF SafeParseCalled(typed) /\ ~typed.events[typed.idx].schemaOk
     THEN typed' = [typed EXCEPT !.phase = "rejected",
                                 !.trace = Append(@, TraceEntry("rejected", "schema", FALSE))]
     ELSE typed' = [typed EXCEPT !.phase = "calling"]
  /\ UNCHANGED <<logVars, ctorVars, verifyVars, calls, walk, oauth>>

\* this.log(result.data) / client.log(result.data) is entered
TypedCallsLog ==
  /\ typed.phase = "calling"
  /\ Log(typed.events[typed.idx].event)

\* the awaited log() call has settled: a rejection ends the typed call, a
\* result is pushed and the loop goes on; the next log() call starts with
\* fresh locals
TypedLogSettles_Continue ==
  /\ typed.phase = "calling"
  /\ Settled
  /\ typed' = [typed EXCEPT
       !.trace = Append(@, TraceEntry(result.kind, result.value, fetches > 0)),
       !.idx = IF typed.kind = "batch" /\ typed.idx < Len(typed.events)
               THEN @ + 1 ELSE @,
       !.phase = IF typed.kind = "batch" /\ typed.idx < Len(typed.events)
                 THEN "loop"
                 ELSE pc]
  /\ event' = NoEvent
  /\ pc' = "idle"
  /\ attempt' = 0
  /\ fetches' = 0
  /\ sleeps' = 0
  /\ hist' = <<>>
  /\ delays' = <<>>
  /\ timer' = FALSE
  /\ result' = NoResult
  /\ retryHeader' = NoHeaders
  /\ retryAfter' = Undefined
  /\ UNCHANGED <<maxRetries, localMode, localModeBannerShown, ctorVars,
                 verifyVars, calls, walk, oauth>>

TypedLogSettles ==
  /\ typed.phase = "calling"
  /\ Settled
  /\ typed' = [typed EXCEPT
       !.trace = Append(@, TraceEntry(result.kind, result.value, fetches > 0)),
       !.idx = IF pc = "resolved" /\ typed.kind = "batch"
                  /\ typed.idx < Len(typed.events)
               THEN @ + 1 ELSE @,
       !.phase = IF pc = "resolved" /\ typed.kind = "batch"
                    /\ typed.idx < Len(typed.events)
                 THEN "loop"
                 ELSE pc]
  /\ event' = NoEvent
  /\ pc' = "idle"
  /\ attempt' = 0
  /\ fetches' = 0
  /\ sleeps' = 0
  /\ hist' = <<>>
  /\ delays' = <<>>
  /\ timer' = FALSE
  /\ result' = NoResult
  /\ retryHeader' = NoHeaders
  /\ retryAfter' = Undefined
  /\ UNCHANGED <<maxRetries, localMode, localModeBannerShown, ctorVars,
                 verifyVars, calls, walk, oauth>>

TypedInit == Init /\ maxRetries <= SmallRetries

TypedNext ==
  \/ \E opt \in ValidateOpts, item \in TypedItems : LogTyped(opt, item)
  \/ \E opt \in ValidateOpts, items \in TypedBatches : LogTypedBatch(opt, items)
  \/ \E item \in TypedItems : TypedLogger(item)
  \/ TypedValidate
  \/ TypedCallsLog
  \/ \E status \in Statuses : FetchResponds(status)
  \/ FetchRejects
  \/ TimeoutFires
  \/ \E parsed \in BOOLEAN : JsonSettles(parsed)
  \/ \E parsed \in BOOLEAN : Json422Settles(parsed)
  \/ SleepDone
  \/ TypedLogSettles

TypedSpec == TypedInit /\ [][TypedNext]_vars

\* validation is in force: a typed logger, or a TypedClient whose
\* validateEvents option was left out or set to true
ValidationOn(t) == t.kind = "logger" \/ t.option # Some(FALSE)

\* the event at position j was handed over to the server or, in local
\* mode, to the console
Delivered(t) ==
  t.kind = "resolved" /\ (t.value = "local" \/ (t.value = "response" /\ t.sent))

\* events go one at a time and in array order, and a failure at idx ends
\* the batch with nothing after idx started
BatchSequential ==
  /\ Len(typed.trace) <= Len(typed.events)
  /\ typed.phase \in {"loop", "calling"} => Len(typed.trace) = typed.idx - 1
  /\ pc # "idle" => typed.phase = "calling"
  /\ \A j \in 1..Len(typed.trace) :
       typed.trace[j].kind = "rejected" =>
         (j = Len(typed.trace) /\ typed.phase = "rejected")
  /\ typed.phase = "rejected" =>
       /\ pc = "idle"
       /\ Len(typed.trace) = typed.idx
       /\ typed.trace[typed.idx].kind = "rejected"
  /\ typed.phase = "resolved" => Len(typed.trace) = Len(typed.events)

\* C28 as stated: logTypedBatch sends its events in array order, one at a
\* time; when validation or delivery of event i fails the batch rejects,
\* no later event is sent, and every event before i has been delivered
C28_BatchPrefixDelivered ==
  typed.kind = "batch" =>
    /\ BatchSequential
    /\ typed.phase = "rejected" =>
         \A j \in 1..(typed.idx - 1) : Delivered(typed.trace[j])

\* C28, amended: logTypedBatch sends its events in array order, one at a
\* time; when logTyped rejects for event i the batch rejects and no later
\* event is sent; for every event before i log() has resolved, which
\* means delivered, or, for an event that cannot be serialized, dropped
\* without a request and answered with the failed-serialization record
C28_BatchPrefixResolved ==
  typed.kind = "batch" =>
    /\ BatchSequential
    /\ \A j \in 1..Len(typed.trace) :
         typed.trace[j].kind = "resolved" =>
           \/ Delivered(typed.trace[j])
           \/ /\ typed.trace[j].value = "failed-serialization"
              /\ ~typed.trace[j].sent
              /\ typed.events[j].event.cyclic

C28_Witness ==
  /\ typed.kind = "batch"
  /\ typed.events = <<OkItem, CyclicItem, OkItem>>
  /\ typed.phase = "rejected"
  /\ typed.idx = 3
  /\ typed.trace[1].value = "response"
  /\ typed.trace[2].value = "failed-serialization"

\* C29: with validation in force, log() is entered only for an event that
\* passed safeParse: an event failing the schema makes the typed call
\* reject with no network attempt, for logTyped, logTypedBatch and every
\* typed logger
C29_ValidatedBeforeSend ==
  (typed.phase # "none" /\ ValidationOn(typed)) =>
    /\ (typed.phase = "calling" \/ pc # "idle") =>
         typed.events[typed.idx].schemaOk
    /\ \A j \in 1..Len(typed.trace) :
         IF typed.events[j].schemaOk
         THEN typed.trace[j].value # "schema"
         ELSE /\ typed.trace[j] = TraceEntry("rejected", "schema", FALSE)
              /\ typed.phase = "rejected"
              /\ j = Len(typed.trace)
              /\ fetches = 0

C29_Witness ==
  /\ typed.kind = "logTyped"
  /\ typed.option = Absent
  /\ typed.events = <<BadSchemaItem>>
  /\ typed.phase = "rejected"
  /\ typed.trace = <<TraceEntry("rejected", "schema", FALSE)>>
  /\ fetches = 0

\* ---------------------------------------------------------------------
\* CLI OAuth flow: startCallbackServer, runOAuthFlow, waitForManualAuth
\* ---------------------------------------------------------------------

\* oauth.promise is callbackPromise: pending, resolved by a callback
\* ("token", "error", "empty" for a callback with neither), or rejected
\* ("timeout", "handlerError"); oauth.timer is timeoutId being armed,
\* oauth.closeTimer the 500 ms timer set by the request handler;
\* oauth.first remembers which callback or timeout came first

CallbackKinds == {"token", "error", "empty", "handlerError"}

\* callbackResolve / callbackReject: a promise settles once
SettlePromise_Overwrite(promise, with) == with

SettlePromise(promise, with) == IF promise = "pending" THEN with ELSE promise

FirstOf(first, kind) == IF first = "none" THEN kind ELSE first

\* close() of the object startCallbackServer resolves with:
\* clearTimeout(timeoutId); server.close()
ServerClose(o) == [o EXCEPT !.timer = FALSE, !.listening = FALSE]

\* the function ends: runOAuthFlow returns from try or catch, or
\* waitForManualAuth returns or throws; finally { server.close() }
Finish(o, outcome, how) ==
  [ServerClose(o) EXCEPT !.pc = "done", !.outcome = outcome, !.how = how]

\* a rejected callbackPromise reaches the caller: runOAuthFlow catches it
\* and returns the error, waitForManualAuth lets it through
Fail(o, outcome) ==
  Finish(o, outcome, IF o.fn = "runOAuthFlow" THEN "returned" ELSE "threw")

\* callbackPromise is rejected while nothing awaits it yet (runOAuthFlow
\* still awaits open()): the runtime either ends the process on the
\* unhandled rejection or carries on
Unhandled(o) == o.pc = "open" /\ o.promise = "pending"

Crash(o) ==
  [o EXCEPT !.pc = "crashed", !.outcome = "crashed", !.how = "exit",
            !.timer = FALSE, !.listening = FALSE, !.closeTimer = FALSE]

otherVars == <<logVars, ctorVars, verifyVars, calls, walk, typed>>

\* runOAuthFlow(options) up to its first await after the server started
RunOAuthFlow(noBrowser, serverOk) ==
  /\ oauth.fn = "none"
  /\ LET started == [oauth EXCEPT !.fn = "runOAuthFlow", !.timer = serverOk,
                                  !.listening = serverOk]
     IN oauth' = IF ~serverOk
                 THEN [started EXCEPT !.pc = "done", !.outcome = "serverFailed",
                                      !.how = "threw"]
                 ELSE IF noBrowser
                 THEN Finish(started, "authUrl", "returned")
                 ELSE [started EXCEPT !.pc = "open"]
  /\ UNCHANGED otherVars

\* waitForManualAuth(server) on a server just started
WaitForManualAuth ==
  /\ oauth.fn = "none"
  /\ oauth' = [oauth EXCEPT !.fn = "waitForManualAuth", !.timer = TRUE,
                            !.listening = TRUE, !.pc = "wait"]
  /\ UNCHANGED otherVars

\* await open(authUrl) settles
OpenSettles(ok) ==
  /\ oauth.pc = "open"
  /\ oauth' = IF ok THEN [oauth EXCEPT !.pc = "wait"]
              ELSE Finish(oauth, "openFailed", "returned")
  /\ UNCHANGED otherVars

\* GET /callback reaches the request handler, on the listening server or
\* over a connection that outlived server.close()
CallbackArrives(kind) ==
  /\ oauth.fn # "none"
  /\ oauth.pc \notin {"done", "crashed"}
  /\ LET o == [oauth EXCEPT !.promise = SettlePromise(@, kind),
                            !.first = FirstOf(@, kind),
                            !.closeTimer = IF kind = "handlerError" THEN @ ELSE TRUE]
     IN IF kind = "handlerError" /\ Unhandled(oauth)
        THEN \E exits \in BOOLEAN : oauth' = IF exits THEN Crash(o) ELSE o
        ELSE oauth' = o
  /\ UNCHANGED otherVars

\* the timeout set by startCallbackServer runs out
OAuthTimeout ==
  /\ oauth.timer
  /\ LET o == [oauth EXCEPT !.timer = FALSE, !.listening = FALSE,
                            !.promise = SettlePromise(@, "timeout"),
                            !.first = FirstOf(@, "timeout")]
     IN IF Unhandled(oauth)
        THEN \E exits \in BOOLEAN : oauth' = IF exits THEN Crash(o) ELSE o
        ELSE oauth' = o
  /\ UNCHANGED otherVars

\* setTimeout(() => server.close(), 500) of the request handler runs
CloseTimerFires ==
  /\ oauth.closeTimer
  /\ oauth' = [oauth EXCEPT !.closeTimer = FALSE, !.listening = FALSE]
  /\ UNCHANGED otherVars

\* await server.waitForCallback() settles
WaitSettles ==
  /\ oauth.pc = "wait"
  /\ oauth.promise # "pending"
  /\ oauth' =
       IF oauth.promise = "token"
       THEN [oauth EXCEPT !.timer = FALSE, !.pc = "exchange"]
       ELSE IF oauth.promise = "error"
       THEN Finish(oauth, "callbackError", "returned")
       ELSE IF oauth.promise = "empty"
       THEN Finish(oauth, "noToken", "returned")
       ELSE IF oauth.promise = "timeout"
       THEN Fail(oauth, "timedOut")
       ELSE Fail(oauth, "handlerFailed")
  /\ UNCHANGED otherVars

\* await exchangeToken(result.token) settles
ExchangeSettles(ok) ==
  /\ oauth.pc = "exchange"
  /\ oauth' = IF ok THEN Finish(oauth, "success", "returned")
              ELSE Fail(oauth, "exchangeFailed")
  /\ UNCHANGED otherVars

OAuthNext ==
  \/ \E noBrowser \in BOOLEAN, serverOk \in BOOLEAN : RunOAuthFlow(noBrowser, serverOk)
  \/ WaitForManualAuth
  \/ \E ok \in BOOLEAN : OpenSettles(ok)
  \/ \E kind \in CallbackKinds : CallbackArrives(kind)
  \/ OAuthTimeout
  \/ CloseTimerFires
  \/ WaitSettles
  \/ \E ok \in BOOLEAN : ExchangeSettles(ok)

OAuthSpec == Init /\ [][OAuthNext]_vars

\* the outcomes a flow may end with when `first` came first
OutcomesAfter(first) ==
  IF first = "token" THEN {"success", "exchangeFailed"}
  ELSE IF first = "error" THEN {"callbackError"}
  ELSE IF first = "empty" THEN {"noToken"}
  ELSE IF first = "timeout" THEN {"timedOut"}
  ELSE IF first = "handlerError" THEN {"handlerFailed"}
  ELSE {}

\* C30: on every exit of runOAuthFlow and waitForManualAuth the callback
\* server is closed and its timeout timer is not armed, and what the flow
\* ends with is decided by whichever callback or timeout came first: a
\* later callback or timeout changes neither callbackPromise nor the
\* outcome
C30_OAuthReleasedAndDecided ==
  /\ oauth.pc \in {"done", "crashed"} => (~oauth.listening /\ ~oauth.timer)
  /\ oauth.promise = IF oauth.first = "none" THEN "pending" ELSE oauth.first
  /\ (oauth.pc = "done"
        /\ oauth.outcome \notin {"authUrl", "serverFailed", "openFailed"})
       => oauth.outcome \in OutcomesAfter(oauth.first)
  /\ oauth.pc = "exchange" => (oauth.first = "token" /\ ~oauth.timer)
  /\ oauth.pc = "crashed" => oauth.first \in {"timeout", "handlerError"}

C30_Witness ==
  /\ oauth.fn = "runOAuthFlow"
  /\ oauth.pc = "done"
  /\ oauth.first = "timeout"
  /\ oauth.outcome = "timedOut"
  /\ oauth.closeTimer
  /\ ~oauth.listening
  /\ ~oauth.timer

====
